---- MODULE Spec2Model ----
(***************************************************************************)
(* EpubLoader (src/src/core/epub_loader.py): the chapter-content pipeline  *)
(* of the EPUB reader.  One interactive thread calls load_file,            *)
(* set_image_visibility, get_chapter_content, preload_chapters and         *)
(* get_flat_toc; the two threads of the ThreadPoolExecutor run the         *)
(* get_chapter_content tasks that preload_chapters submitted.  Nothing in  *)
(* the class takes a lock, so the worker steps interleave with the steps   *)
(* of the interactive thread at every access to a shared field.            *)
(*                                                                         *)
(* Strings are sequences of tokens (a token is one character, or a chunk   *)
(* that no operation of the code splits, such as "jpg").  Python's None    *)
(* for an index is NoIndex, for a chapter's HTML NoContent.                *)
(***************************************************************************)
EXTENDS Integers, Sequences, FiniteSets, TLC

\* ------------------------------------------------------------------ bounds

\* Longest work queue of the executor the model explores.
MaxQueue == 3

\* How many calls the interactive thread makes in a run: load_file,
\* set_image_visibility that changes the flag, preload_chapters and
\* get_chapter_content.
MaxLoads == 2
MaxToggles == 2
MaxPreloads == 1
MaxGets == 2

\* The same for load_file and the flag changes in the runs checked for progress.
LiveLoads == 1
LiveToggles == 1

\* Longest top-level navigation list of the books given to get_flat_toc.
MaxTocLen == 2

\* ThreadPoolExecutor(max_workers=2)
max_workers == 2

\* A pool of three threads.
Workers_three == 1..3

Workers == 1..max_workers

\* ----------------------------------------------------------------- strings

RECURSIVE LastIndexOf(_, _, _)
\* The position of the last c in s[1..n], 0 when there is none.
LastIndexOf(s, c, n) ==
    IF n = 0 THEN 0
    ELSE IF s[n] = c THEN n
    ELSE LastIndexOf(s, c, n - 1)

RECURSIVE FirstIndexOf(_, _, _)
\* The position of the first c in s[n..Len(s)], 0 when there is none.
FirstIndexOf(s, c, n) ==
    IF n > Len(s) THEN 0
    ELSE IF s[n] = c THEN n
    ELSE FirstIndexOf(s, c, n + 1)

\* s.split(c)[-1]
SplitLast(s, c) == SubSeq(s, LastIndexOf(s, c, Len(s)) + 1, Len(s))

\* s.split(c)[0]
SplitFirst(s, c) ==
    LET p == FirstIndexOf(s, c, 1)
    IN  IF p = 0 THEN s ELSE SubSeq(s, 1, p - 1)

\* os.path.basename (posixpath): the text after the last "/".
basename(s) == SplitLast(s, "/")

\* sub in s
Contains(sub, s) ==
    \E i \in 0..(Len(s) - Len(sub)) : SubSeq(s, i + 1, i + Len(sub)) = sub

\* The percent escapes that occur in the modelled inputs, by their two hex digits.
Escapes ==
    (<<"2", "0">> :> " ") @@ (<<"2", "F">> :> "/") @@ (<<"2", "f">> :> "/")
        @@ (<<"3", "F">> :> "?") @@ (<<"3", "f">> :> "?")

RECURSIVE unquote(_)
\* urllib.parse.unquote: every %XX escape is replaced by its character; a "%"
\* that starts no escape is kept.
unquote(s) ==
    IF s = <<>> THEN <<>>
    ELSE IF s[1] = "%" /\ Len(s) >= 3 /\ <<s[2], s[3]>> \in DOMAIN Escapes
         THEN <<Escapes[<<s[2], s[3]>>]>> \o unquote(SubSeq(s, 4, Len(s)))
         ELSE <<s[1]>> \o unquote(Tail(s))

\* str.lower on the tokens of the modelled inputs.
LowerToken(t) ==
    CASE t = "JPG" -> "jpg"
      [] t = "PNG" -> "png"
      [] OTHER -> t

lower(s) == [i \in DOMAIN s |-> LowerToken(s[i])]

\* dict[k] = v
Put(d, k, v) == (k :> v) @@ d

\* --------------------------------------------------------------- archives

NoIndex == 0 - 1

\* A document item of the archive: its archive, its name, whether its bytes
\* decode as UTF-8, and the src values of the image tags the pattern of
\* _embed_images matches in it, in document order.
Chapter(a, n, ok, srcs) == [arch |-> a, name |-> n, ok |-> ok, srcs |-> srcs]

\* An image item of the archive.
Image(a, n) == [arch |-> a, name |-> n]

\* Navigation nodes of book.toc: a Link/Section (title, href), a nested
\* tuple or list, and an item whose processing raises.
Leaf(t, h) == [kind |-> "leaf", title |-> t, href |-> h]
Group(c) == [kind |-> "group", children |-> c]
Bad == [kind |-> "bad"]

NoBook == [id |-> 0, chapters |-> <<>>, images |-> <<>>, toc |-> <<>>]

CoverJpg == <<"i", "/", "c", ".", "jpg">>

\* Book A: four chapters, the second with one image tag, and the image it names.
BookA ==
    [id |-> 1,
     chapters |-> << Chapter(1, <<"t", "/", "a">>, TRUE, << >>),
                     Chapter(1, <<"t", "/", "b">>, TRUE, << CoverJpg >>),
                     Chapter(1, <<"t", "/", "c">>, TRUE, << >>),
                     Chapter(1, <<"t", "/", "d">>, TRUE, << >>) >>,
     images |-> << Image(1, CoverJpg) >>,
     toc |-> << Leaf(<<"A">>, <<"t", "/", "a">>),
                Group(<< Leaf(<<"B">>, <<"b">>), Group(<< >>) >>) >>]

\* Book B: two chapters, the first not decodable, the second with an image tag
\* of the same src as book A's, and its own image of that name.
BookB ==
    [id |-> 2,
     chapters |-> << Chapter(2, <<"u", "/", "z">>, FALSE, << >>),
                     Chapter(2, <<"u", "/", "a">>, TRUE, << CoverJpg >>) >>,
     images |-> << Image(2, CoverJpg) >>,
     toc |-> << >>]

Books == {BookA, BookB}

\* What load_file is given: a file that holds a book, and where reading it
\* raises: "read" in epub.read_epub (no valid archive), "title" in
\* get_metadata("DC", "title") (the package metadata declares no DC namespace),
\* "none" nowhere.
Files ==
    {[book |-> BookA, fail |-> "none"], [book |-> BookB, fail |-> "none"],
     [book |-> BookB, fail |-> "title"], [book |-> BookB, fail |-> "read"]}

MaxChapters == Len(BookA.chapters)

\* The books get_flat_toc is run on: no chapters, two chapters, and three of
\* which two share a basename; navigation lists of up to MaxTocLen nodes, a
\* node being a link (titled or not, with or without an href, the href naming
\* a chapter in full, by basename, with a query string, by a part of its name
\* (with or without a query string), or naming none), an item that raises, or a nested collection of these (a
\* section with its links is the tuple (Section, [Link, ...])).
TocChapterLists ==
    { << >>,
      << Chapter(3, <<"t", "/", "a">>, TRUE, << >>),
         Chapter(3, <<"t", "/", "b">>, TRUE, << >>) >>,
      << Chapter(3, <<"t", "/", "a">>, TRUE, << >>),
         Chapter(3, <<"u", "/", "a">>, TRUE, << >>),
         Chapter(3, <<"t", "/", "b">>, TRUE, << >>) >> }

TocTitles == {<< >>, <<"T">>}

TocHrefs ==
    {<< >>, <<"t", "/", "a">>, <<"b">>, <<"a", "?", "q">>, <<"t">>, <<"t", "?", "q">>,
     <<"x">>}

TocLeaves == {Leaf(t, h) : t \in TocTitles, h \in TocHrefs}

TocGroups ==
    {Group(<< >>)}
        \cup {Group(<<n>>) : n \in TocLeaves \cup {Bad}}
        \cup {Group(<<Leaf(<<"T">>, <<"b">>), Bad>>),
              Group(<<Group(<<Leaf(<<"T">>, <<"b">>)>>)>>),
              Group(<<Leaf(<<"T">>, <<"t", "/", "a">>),
                      Group(<<Leaf(<<"T">>, <<"b">>)>>)>>)}

TocNodes == TocLeaves \cup {Bad} \cup TocGroups

TocLists == UNION {[1..k -> TocNodes] : k \in 0..MaxTocLen}

TocBooks ==
    {[id |-> 3, chapters |-> c, images |-> << >>, toc |-> t] :
        c \in TocChapterLists, t \in TocLists}

\* The indices the callers pass: every valid one and one on either side.
IndexInputs == (0 - 1)..MaxChapters

\* ------------------------------------------------------- loader, functions

\* _MIME_TYPES
_MIME_TYPES ==
    ("jpg" :> "image/jpeg") @@ ("jpeg" :> "image/jpeg") @@ ("png" :> "image/png")
        @@ ("gif" :> "image/gif") @@ ("svg" :> "image/svg+xml")
        @@ ("webp" :> "image/webp")

\* self._MIME_TYPES.get(ext, "image/jpeg") for ext = name.lower().split(".")[-1]
MimeType(name) ==
    LET e == SplitLast(lower(name), ".")
    IN  IF Len(e) = 1 /\ e[1] \in DOMAIN _MIME_TYPES
        THEN _MIME_TYPES[e[1]]
        ELSE "image/jpeg"

RECURSIVE IndexItems(_, _)
\* The loop of _build_image_index over the image items, in archive order:
\* each item is stored under its name, its last "/" segment and its basename.
IndexItems(images, index) ==
    IF images = <<>> THEN index
    ELSE LET item == Head(images)
             i1 == Put(index, item.name, item)
             i2 == Put(i1, SplitLast(item.name, "/"), item)
             i3 == Put(i2, basename(item.name), item)
         IN  IndexItems(Tail(images), i3)

\* The index _build_image_index leaves for a book.
_build_image_index(bk) == IndexItems(bk.images, <<>>)

RECURSIVE MapChapters(_, _, _)
\* The loop of load_file over enumerate(self._chapters).
MapChapters(chs, i, map) ==
    IF i >= Len(chs) THEN map
    ELSE MapChapters(chs, i + 1, Put(map, basename(chs[i + 1].name), i))

\* What one matched image tag becomes: a placeholder naming a file, the tag
\* with its src replaced by a data URI of an image item, or the tag itself.
Placeholder(file) == [kind |-> "placeholder", name |-> file, arch |-> 0, mime |-> ""]
DataUri(item) == [kind |-> "data", name |-> item.name, arch |-> item.arch, mime |-> MimeType(item.name)]
Unmodified(src) == [kind |-> "tag", name |-> src, arch |-> 0, mime |-> ""]

\* _replace_image for a tag whose src is src, reading the flag and the index.
_replace_image(src, show, index) ==
    IF ~show THEN Placeholder(basename(unquote(src)))
    ELSE LET src_decoded == unquote(src)
             last == SplitLast(src_decoded, "/")
         IN  IF src_decoded \in DOMAIN index THEN DataUri(index[src_decoded])
             ELSE IF last \in DOMAIN index THEN DataUri(index[last])
             ELSE Unmodified(src)

\* _embed_images: pattern.sub(self._replace_image, html) over the matches.
_embed_images(srcs, show, index) ==
    [k \in DOMAIN srcs |-> _replace_image(srcs[k], show, index)]

\* A processed chapter: the document it was made from and its image tags.
Content(raw, tags) == [arch |-> raw.arch, name |-> raw.name, tags |-> tags]

NoContent == [arch |-> 0, name |-> <<>>, tags |-> <<>>]

\* _find_chapter_index
_find_chapter_index(href, map, chs) ==
    IF href = <<>> THEN NoIndex
    ELSE LET filename == basename(unquote(href))
             base_name == SplitFirst(filename, "?")
             hits == {i \in 0..(Len(chs) - 1) : Contains(filename, chs[i + 1].name)}
         IN  IF filename \in DOMAIN map THEN map[filename]
             ELSE IF FirstIndexOf(filename, "?", 1) # 0 /\ base_name \in DOMAIN map
                  THEN map[base_name]
             ELSE IF hits # {} THEN CHOOSE i \in hits : \A j \in hits : i <= j
             ELSE NoIndex

TocEntry(t, l, h, c) == [title |-> t, level |-> l, href |-> h, chapter_idx |-> c]

RECURSIVE process_items(_, _, _, _, _)
\* process_items of get_flat_toc: the entries appended to acc, and whether
\* the walk raised.  The recursion into a nested collection keeps the level.
process_items(items, level, acc, map, chs) ==
    IF items = <<>> THEN [out |-> acc, raised |-> FALSE]
    ELSE LET item == Head(items)
         IN  CASE item.kind = "group" ->
                    LET r == process_items(item.children, level, acc, map, chs)
                    IN  IF r.raised THEN r
                        ELSE process_items(Tail(items), level, r.out, map, chs)
               [] item.kind = "bad" -> [out |-> acc, raised |-> TRUE]
               [] OTHER ->
                    IF item.title = <<>>
                    THEN process_items(Tail(items), level, acc, map, chs)
                    ELSE process_items(Tail(items), level,
                             Append(acc, TocEntry(item.title, level, item.href,
                                        _find_chapter_index(item.href, map, chs))),
                             map, chs)

\* The fallback list of get_flat_toc: one entry per chapter.
FallbackToc(chs) ==
    [i \in 1..Len(chs) |->
        TocEntry(<<"#", ToString(i)>> \o basename(chs[i].name), 0, chs[i].name, i - 1)]

\* ------------------------------------------------------------------- state

VARIABLES
    _book,           \* self._book: the book read last, NoBook before any
    _chapters,       \* self._chapters: its document items
    _chapter_map,    \* self._chapter_map: basename -> chapter index
    _chapter_cache,  \* self._chapter_cache: chapter index -> processed chapter
    _image_index,    \* self._image_index: path -> image item
    _show_images,    \* self._show_images
    queue,           \* the executor's work queue, oldest task first
    wk,              \* per worker thread: where it is in get_chapter_content
    m,               \* the interactive thread: where it is in the call it makes
    ret,             \* what the interactive thread's calls returned (see NoRet)
    pre,             \* the loader's fields when the last load_file was called
    prefetched,      \* the arguments of preload_chapters since the cache was last cleared
    flat_toc,        \* what the last get_flat_toc returned
    calls,           \* how many calls of each kind the interactive thread has made
    match,           \* _replace_image: the image tag of the match it is given
    replaced,        \* _replace_image: what it returned for it
    settings_file,   \* the file at SettingsManager._settings_file
    settings_ret,    \* what the last SettingsManager.load or save returned
    wpc,             \* the window: "init" in __init__ before _load_settings, then "ready"
    _font_scale,     \* MainWindow._font_scale, in tenths
    _line_spacing,   \* MainWindow._line_spacing, in tenths
    _paragraph_spacing,  \* MainWindow._paragraph_spacing, in tenths
    _current_chapter,    \* MainWindow._current_chapter
    _reading_mode,       \* MainWindow._reading_mode
    win_show_images,     \* MainWindow._show_images
    shown,               \* the chapter content last given to self._browser.setHtml
    pending,             \* the runJavaScript callbacks not yet run, oldest first
    ev                   \* what the window's last handler did (see NoEvent)

\* What no method of the loader reads or writes: the tag a single
\* _replace_image call is followed on, the settings file, the window's fields.
image == <<match, replaced>>
settings == <<settings_file, settings_ret>>
reader == <<_current_chapter, _reading_mode, win_show_images, shown, pending, ev>>
window == <<wpc, _font_scale, _line_spacing, _paragraph_spacing, reader>>

rest == <<image, settings, window>>

vars ==
    <<_book, _chapters, _chapter_map, _chapter_cache, _image_index, _show_images,
      queue, wk, m, ret, pre, prefetched, flat_toc, calls, rest>>

loader == <<_book, _chapters, _chapter_map, _chapter_cache, _image_index, _show_images>>

NoChapter == Chapter(0, <<>>, TRUE, <<>>)

\* A task of the queue: get_chapter_content(idx), submitted by preload_chapters(cur).
Task(i, c) == [idx |-> i, cur |-> c]

WIdle == [pc |-> "idle", idx |-> 0, cur |-> 0, raw |-> NoChapter, out |-> <<>>]

MIdle == [pc |-> "idle", fail |-> "none", idx |-> 0, html |-> NoContent, i |-> 0, hi |-> 0]

\* ret: the last load_file result, or the get_chapter_content result that the
\* next one for the same index is compared with: the last one returned before
\* the flag was changed (toggles counts the changes of the flag since).
NoRet == [op |-> "none", arg |-> 0, ok |-> TRUE, html |-> NoContent, toggles |-> 0]
LoadRet(ok) == [op |-> "load", arg |-> 0, ok |-> ok, html |-> NoContent, toggles |-> 0]
TocRet == [op |-> "toc", arg |-> 0, ok |-> TRUE, html |-> NoContent, toggles |-> 0]
GetRet(i, html) == [op |-> "get", arg |-> i, ok |-> html # NoContent, html |-> html, toggles |-> 0]

\* ret after a get_chapter_content(i) that returned html.
Returned(i, html) ==
    IF ret.op = "get" /\ (ret.toggles = 1 \/ (ret.toggles = 2 /\ ret.arg # i))
    THEN ret
    ELSE GetRet(i, html)

\* ret after a set_image_visibility that changed the flag.
Toggled ==
    IF ret.op = "get" /\ ret.toggles < 2 THEN [ret EXCEPT !.toggles = @ + 1] ELSE NoRet

NoPre == [book |-> NoBook, chapters |-> <<>>, map |-> <<>>, index |-> <<>>, cached |-> {}]

Snapshot ==
    [book |-> _book, chapters |-> _chapters, map |-> _chapter_map,
     index |-> _image_index, cached |-> DOMAIN _chapter_cache]

\* MainWindow.__init__, lines 107-109, in tenths.
DefaultFontScale == 10
DefaultLineSpacing == 18
DefaultParagraphSpacing == 12

\* No tag: _replace_image has not been called.
NoTag == <<>>

\* The settings file: missing, not readable, readable but no valid JSON, or
\* the JSON of a map (data); and whether the path can be opened for writing.
SFile(k, d, w) == [kind |-> k, data |-> d, writable |-> w]

\* No settings file, and no SettingsManager call made.
NoFile == SFile("missing", <<>>, TRUE)
NoSettingsRet == [op |-> "none", raised |-> FALSE, ok |-> TRUE, data |-> <<>>]

\* No _replace_image call is followed.
ImageIdle == match = NoTag /\ replaced = NoTag

\* No settings file, and no call of the SettingsManager.
SettingsIdle == settings_file = NoFile /\ settings_ret = NoSettingsRet

\* What a handler of the window did: whether it loaded an archive ("none",
\* "ok", "failed"), how often it called get_flat_toc and setHtml, the
\* arguments of its preload_chapters calls, whether a get_chapter_content
\* of its _display_chapter returned None, and the button when the handler
\* was WebBridge.onMouseClick.
Event(l, t, r, p, n) ==
    [loaded |-> l, tocs |-> t, renders |-> r, preloads |-> p, notfound |-> n,
     click |-> ""]

NoEvent == Event("none", 0, 0, <<>>, FALSE)

\* The window's fields as MainWindow.__init__ sets them, lines 97-110, an
\* empty browser and no callback waiting.
WindowDefaults ==
    /\ _font_scale = DefaultFontScale
    /\ _line_spacing = DefaultLineSpacing
    /\ _paragraph_spacing = DefaultParagraphSpacing
    /\ _current_chapter = 0
    /\ _reading_mode = FALSE
    /\ win_show_images = TRUE
    /\ shown = NoContent
    /\ pending = <<>>
    /\ ev = NoEvent

\* Outside the loader, after MainWindow.__init__ with no settings file.
RestInit == ImageIdle /\ SettingsIdle /\ wpc = "ready" /\ WindowDefaults

\* EpubLoader.__init__
LoaderInit ==
    /\ _book = NoBook
    /\ _chapters = <<>>
    /\ _chapter_map = <<>>
    /\ _chapter_cache = <<>>
    /\ _image_index = <<>>
    /\ _show_images = TRUE
    /\ queue = <<>>
    /\ wk = [w \in Workers |-> WIdle]
    /\ m = MIdle
    /\ ret = NoRet
    /\ pre = NoPre
    /\ prefetched = {}
    /\ flat_toc = <<>>
    /\ calls = [loads |-> 0, toggles |-> 0, preloads |-> 0, gets |-> 0]

\* MainWindow.__init__ with no settings file: the loader it creates, and its
\* own fields.
Init == LoaderInit /\ RestInit

\* chapter_count
chapter_count == Len(_chapters)

\* --------------------------------------------------- the interactive thread

\* load_file, lines 48-59: read_epub raises and nothing is assigned, or the
\* book, the chapter list and the filename map are replaced.  (No worker reads
\* the map, and a worker reads the book only where the chapter list it has
\* just indexed shows that a book is set.)
load_file(f) ==
    /\ m.pc = "idle"
    /\ calls.loads < MaxLoads
    /\ calls' = [calls EXCEPT !.loads = @ + 1]
    /\ pre' = IF f.fail = "none" THEN NoPre ELSE Snapshot
    /\ IF f.fail = "read"
       THEN /\ ret' = LoadRet(FALSE)
            /\ UNCHANGED <<loader, queue, wk, m, prefetched, flat_toc>>
       ELSE /\ _book' = f.book
            /\ _chapters' = f.book.chapters
            /\ _chapter_map' = MapChapters(f.book.chapters, 0, <<>>)
            /\ m' = [MIdle EXCEPT !.pc = "load_clear", !.fail = f.fail]
            /\ ret' = NoRet
            /\ prefetched' = {}
            /\ UNCHANGED <<_chapter_cache, _image_index, _show_images, queue, wk, flat_toc>>
    /\ UNCHANGED rest

\* load_file, line 61: self._chapter_cache.clear()
load_clear ==
    /\ m.pc = "load_clear"
    /\ _chapter_cache' = <<>>
    /\ m' = [m EXCEPT !.pc = "load_index"]
    /\ UNCHANGED <<_book, _chapters, _chapter_map, _image_index, _show_images,
                   queue, wk, ret, pre, prefetched, flat_toc, calls>>
    /\ UNCHANGED rest

\* _build_image_index, line 72: self._image_index.clear()
load_index ==
    /\ m.pc = "load_index"
    /\ _image_index' = <<>>
    /\ m' = [m EXCEPT !.pc = "load_fill"]
    /\ UNCHANGED <<_book, _chapters, _chapter_map, _chapter_cache, _show_images,
                   queue, wk, ret, pre, prefetched, flat_toc, calls>>
    /\ UNCHANGED rest

\* _build_image_index, lines 76-82, then load_file, lines 64-68: the title is
\* read and (True, title) returned, or get_metadata raises and the handler
\* returns (False, message).
load_fill ==
    /\ m.pc = "load_fill"
    /\ _image_index' = _build_image_index(_book)
    /\ ret' = LoadRet(m.fail # "title")
    /\ m' = MIdle
    /\ UNCHANGED <<_book, _chapters, _chapter_map, _chapter_cache, _show_images,
                   queue, wk, pre, prefetched, flat_toc, calls>>
    /\ UNCHANGED rest

\* The cache of a set_image_visibility that clears whatever it is given.
ClearedAlways(cache, changed) == <<>>

\* The cache set_image_visibility leaves.
ClearedIfChanged(cache, changed) == IF changed THEN <<>> ELSE cache

\* set_image_visibility.  (Its two assignments are one step: a worker step
\* between them reads the new flag or stores an entry that the clear removes,
\* as it does right after or right before the pair.)
set_image_visibility(visible) ==
    /\ m.pc = "idle"
    /\ _show_images # visible => calls.toggles < MaxToggles
    /\ calls' = IF _show_images # visible THEN [calls EXCEPT !.toggles = @ + 1] ELSE calls
    /\ _show_images' = visible
    /\ _chapter_cache' = ClearedIfChanged(_chapter_cache, _show_images # visible)
    /\ ret' = IF _show_images # visible THEN Toggled ELSE ret
    /\ prefetched' = IF _show_images # visible THEN {} ELSE prefetched
    /\ pre' = NoPre
    /\ UNCHANGED <<_book, _chapters, _chapter_map, _image_index, queue, wk, m, flat_toc>>
    /\ UNCHANGED rest

\* get_chapter_content on the interactive thread, lines 92-100: the range
\* check, the cache lookup, the decode and the image rewrite.  Of what they
\* read only the cache is written by other threads, and it is read first.
get_chapter_content(index) ==
    /\ m.pc = "idle"
    /\ calls.gets < MaxGets
    /\ calls' = [calls EXCEPT !.gets = @ + 1]
    /\ pre' = NoPre
    /\ IF ~(0 <= index /\ index < Len(_chapters))
       THEN ret' = Returned(index, NoContent) /\ m' = m
       ELSE IF index \in DOMAIN _chapter_cache
       THEN ret' = Returned(index, _chapter_cache[index]) /\ m' = m
       ELSE IF ~_chapters[index + 1].ok
       THEN ret' = Returned(index, NoContent) /\ m' = m
       ELSE /\ m' = [MIdle EXCEPT !.pc = "get_store", !.idx = index,
                        !.html = Content(_chapters[index + 1],
                                     _embed_images(_chapters[index + 1].srcs,
                                                   _show_images, _image_index))]
            /\ ret' = ret
    /\ UNCHANGED <<loader, queue, wk, prefetched, flat_toc>>
    /\ UNCHANGED rest

\* get_chapter_content on the interactive thread, lines 101-102.
get_store ==
    /\ m.pc = "get_store"
    /\ _chapter_cache' = Put(_chapter_cache, m.idx, m.html)
    /\ ret' = Returned(m.idx, m.html)
    /\ m' = MIdle
    /\ UNCHANGED <<_book, _chapters, _chapter_map, _image_index, _show_images,
                   queue, wk, pre, prefetched, flat_toc, calls>>
    /\ UNCHANGED rest

\* The range without the clamp at 0: range(current - 1, ...).
PreloadRange_unclamped(current, n) ==
    [lo |-> current - 1,
     hi |-> IF n < current + 2 THEN n ELSE current + 2]

\* The range without the chapter after the current one: range(..., current + 1).
PreloadRange_short(current, n) ==
    [lo |-> IF current - 1 > 0 THEN current - 1 ELSE 0,
     hi |-> IF n < current + 1 THEN n ELSE current + 1]

\* range(max(0, current - 1), min(len(self._chapters), current + 2)) as its
\* first index and the index after its last.
PreloadRange(current, n) ==
    [lo |-> IF current - 1 > 0 THEN current - 1 ELSE 0,
     hi |-> IF n < current + 2 THEN n ELSE current + 2]

\* preload_chapters, line 108: the range is evaluated.
preload_chapters(current) ==
    /\ m.pc = "idle"
    /\ calls.preloads < MaxPreloads
    /\ calls' = [calls EXCEPT !.preloads = @ + 1]
    /\ LET r == PreloadRange(current, Len(_chapters))
       IN  m' = IF r.lo < r.hi
                THEN [MIdle EXCEPT !.pc = "preload", !.idx = current, !.i = r.lo, !.hi = r.hi]
                ELSE MIdle
    /\ prefetched' = prefetched \cup {current}
    /\ pre' = NoPre
    /\ UNCHANGED <<loader, queue, wk, ret, flat_toc>>
    /\ UNCHANGED rest

\* preload_chapters, lines 109-110, for one i of the range.
preload_step ==
    /\ m.pc = "preload"
    /\ IF m.i \notin DOMAIN _chapter_cache
       THEN /\ Len(queue) < MaxQueue
            /\ queue' = Append(queue, Task(m.i, m.idx))
       ELSE queue' = queue
    /\ m' = IF m.i + 1 < m.hi THEN [m EXCEPT !.i = m.i + 1] ELSE MIdle
    /\ UNCHANGED <<loader, wk, ret, pre, prefetched, flat_toc, calls>>
    /\ UNCHANGED rest

\* ------------------------------------------------------- the worker threads

\* A free worker takes the oldest task of the queue (of two free workers the
\* first: they are interchangeable).
take(w) ==
    /\ wk[w].pc = "idle"
    /\ \A v \in Workers : v < w => wk[v].pc # "idle"
    /\ queue # <<>>
    /\ wk' = [wk EXCEPT ![w] = [WIdle EXCEPT !.pc = "check", !.idx = Head(queue).idx,
                                             !.cur = Head(queue).cur]]
    /\ queue' = Tail(queue)
    /\ UNCHANGED <<loader, m, ret, pre, prefetched, flat_toc, calls>>
    /\ UNCHANGED rest

\* get_chapter_content in a task, lines 92-96.
check(w) ==
    /\ wk[w].pc = "check"
    /\ wk' = [wk EXCEPT ![w] =
                IF /\ 0 <= wk[w].idx
                   /\ wk[w].idx < Len(_chapters)
                   /\ wk[w].idx \notin DOMAIN _chapter_cache
                THEN [wk[w] EXCEPT !.pc = "read"]
                ELSE WIdle]
    /\ UNCHANGED <<loader, queue, m, ret, pre, prefetched, flat_toc, calls>>
    /\ UNCHANGED rest

\* get_chapter_content in a task, line 99: self._chapters[index], which raises
\* IndexError when the list has been replaced by a shorter one, and the decode.
read(w) ==
    /\ wk[w].pc = "read"
    /\ wk' = [wk EXCEPT ![w] =
                IF wk[w].idx < Len(_chapters) /\ _chapters[wk[w].idx + 1].ok
                THEN [wk[w] EXCEPT !.pc = IF _chapters[wk[w].idx + 1].srcs = <<>>
                                          THEN "store" ELSE "embed",
                                   !.raw = _chapters[wk[w].idx + 1]]
                ELSE WIdle]
    /\ UNCHANGED <<loader, queue, m, ret, pre, prefetched, flat_toc, calls>>
    /\ UNCHANGED rest

\* _replace_image in a task, for the next matched tag of the chapter.
embed(w) ==
    /\ wk[w].pc = "embed"
    /\ LET k == Len(wk[w].out) + 1
           out == Append(wk[w].out,
                         _replace_image(wk[w].raw.srcs[k], _show_images, _image_index))
       IN  wk' = [wk EXCEPT ![w] =
                    [wk[w] EXCEPT !.out = out,
                                  !.pc = IF k = Len(wk[w].raw.srcs) THEN "store" ELSE "embed"]]
    /\ UNCHANGED <<loader, queue, m, ret, pre, prefetched, flat_toc, calls>>
    /\ UNCHANGED rest

\* get_chapter_content in a task, line 101: self._chapter_cache[index] = content
store(w) ==
    /\ wk[w].pc = "store"
    /\ _chapter_cache' = Put(_chapter_cache, wk[w].idx, Content(wk[w].raw, wk[w].out))
    /\ wk' = [wk EXCEPT ![w] = WIdle]
    /\ UNCHANGED <<_book, _chapters, _chapter_map, _image_index, _show_images,
                   queue, m, ret, pre, prefetched, flat_toc, calls>>
    /\ UNCHANGED rest

\* What get_flat_toc returns: nothing without a book, else the entries of the
\* walk of book.toc, and on an exception the fallback entries appended to what
\* the walk had produced.
FlatToc(bk, map, chs) ==
    IF bk.id = 0 THEN <<>>
    ELSE LET r == process_items(bk.toc, 0, <<>>, map, chs)
         IN  IF r.raised THEN r.out \o FallbackToc(chs) ELSE r.out

\* get_flat_toc
get_flat_toc ==
    /\ m.pc = "idle"
    /\ flat_toc' = FlatToc(_book, _chapter_map, _chapters)
    /\ ret' = TocRet
    /\ UNCHANGED <<loader, queue, wk, m, pre, prefetched, calls>>
    /\ UNCHANGED rest

\* ----------------------------------------------------------- specification

Next ==
    \/ \E f \in Files : load_file(f)
    \/ load_clear
    \/ load_index
    \/ load_fill
    \/ \E v \in BOOLEAN : set_image_visibility(v)
    \/ \E i \in IndexInputs : get_chapter_content(i)
    \/ get_store
    \/ \E c \in IndexInputs : preload_chapters(c)
    \/ preload_step
    \/ \E w \in Workers : take(w)
    \/ \E w \in Workers : check(w)
    \/ \E w \in Workers : read(w)
    \/ \E w \in Workers : embed(w)
    \/ \E w \in Workers : store(w)

Spec == Init /\ [][Next]_vars

\* The loader after a successful load_file of one of TocBooks, with no
\* prefetch submitted.
TocInit ==
    /\ _book \in TocBooks
    /\ _chapters = _book.chapters
    /\ _chapter_map = MapChapters(_book.chapters, 0, <<>>)
    /\ _chapter_cache = <<>>
    /\ _image_index = _build_image_index(_book)
    /\ _show_images = TRUE
    /\ queue = <<>>
    /\ wk = [w \in Workers |-> WIdle]
    /\ m = MIdle
    /\ ret = LoadRet(TRUE)
    /\ pre = NoPre
    /\ prefetched = {}
    /\ flat_toc = <<>>
    /\ calls = [loads |-> 1, toggles |-> 0, preloads |-> 0, gets |-> 0]
    /\ RestInit

TocNext == get_flat_toc

TocSpec == TocInit /\ [][TocNext]_vars

\* The steps by which the interactive thread finishes the call it is in, and
\* the steps of a worker thread.
MainStep == load_clear \/ load_index \/ load_fill \/ get_store \/ preload_step
WorkerStep(w) == take(w) \/ check(w) \/ read(w) \/ embed(w) \/ store(w)

\* The threads are scheduled: while some thread has a step to take, a step is
\* taken.  (No more is needed: a call and a task end after finitely many steps.)
Fairness == WF_vars(MainStep \/ \E w \in Workers : WorkerStep(w))

\* The runs with at most LiveLoads load_file calls and LiveToggles flag changes.
FairNext == Next /\ calls'.loads <= LiveLoads /\ calls'.toggles <= LiveToggles

FairSpec == Init /\ [][FairNext]_vars /\ Fairness

\* ------------------------------------------------------------------ claims

\* A processed chapter as it is computed under flag show: every matched tag
\* is a placeholder exactly when images are hidden.
ComputedUnder(html, show) ==
    \A k \in DOMAIN html.tags : (html.tags[k].kind = "placeholder") <=> ~show

\* A processed chapter derived from the book of identity id alone.
DerivedFrom(html, id) ==
    /\ html.arch = id
    /\ \A k \in DOMAIN html.tags : html.tags[k].kind = "data" => html.tags[k].arch = id

Quiescent == m.pc = "idle" /\ queue = <<>> /\ \A w \in Workers : wk[w].pc = "idle"

\* C1: every entry of the chapter cache was computed under the present value
\* of the show-images flag.
C1_CacheUnderCurrentFlag ==
    \A i \in DOMAIN _chapter_cache : ComputedUnder(_chapter_cache[i], _show_images)

\* C2: once load_file has returned success and every prefetch task has
\* finished, no cache entry derives from another archive's chapters or images.
C2_GenerationIsolation ==
    (Quiescent /\ ret = LoadRet(TRUE)) =>
        \A i \in DOMAIN _chapter_cache : DerivedFrom(_chapter_cache[i], _book.id)

\* A worker that has passed the cache lookup for its index and not yet stored.
Computing(w) == wk[w].pc \in {"read", "embed", "store"}

\* C3: no two threads compute the content of the same chapter index at the
\* same time.
C3_MutualExclusion ==
    /\ \A v, w \in Workers : (v # w /\ Computing(v) /\ Computing(w)) => wk[v].idx # wk[w].idx
    /\ \A w \in Workers : (Computing(w) /\ m.pc = "get_store") => wk[w].idx # m.idx

C5_AtomicReplace ==
    \A w \in Workers : \A k \in DOMAIN wk[w].out :
        wk[w].out[k].kind = "data" => wk[w].out[k].arch = wk[w].raw.arch

\* The step in which get_chapter_content(i) returns on the interactive thread.
GetReturns(i) ==
    \/ get_chapter_content(i) /\ m'.pc = "idle"
    \/ get_store /\ m.idx = i

\* C6: a get_chapter_content(i) for a valid i that follows another one, with no
\* change of the flag and no load_file in between, returns the same string and
\* leaves the cache as it is.
C6_CacheIdempotent ==
    [][\A i \in 0..(chapter_count - 1) :
          (GetReturns(i) /\ ret.op = "get" /\ ret.arg = i /\ ret.toggles = 0)
              => (ret'.html = ret.html /\ _chapter_cache' = _chapter_cache)]_vars

\* C7: after the flag was changed and changed back, with no load_file since,
\* get_chapter_content(i) returns the string it returned before the two changes.
C7_ToggleRoundTrip ==
    [][\A i \in 0..(chapter_count - 1) :
          (GetReturns(i) /\ ret.op = "get" /\ ret.arg = i /\ ret.toggles = 2)
              => ret'.html = ret.html]_vars

Window(k) == {k - 1, k, k + 1}

\* preload_chapters(k) was called for a k with both neighbours in range and
\* all three chapters decodable, and the cache was not cleared since.
Prefetching(k) ==
    /\ k \in prefetched
    /\ 0 < k /\ k < chapter_count - 1
    /\ \A i \in Window(k) : _chapters[i + 1].ok

\* C9: after preload_chapters(k), 0 < k < chapter_count-1, the cache comes to
\* hold k-1, k and k+1 unless it is cleared, and a task stores under no index
\* outside the window of the call that submitted it.
C9_PrefetchFillsWindow ==
    /\ \A k \in 1..(MaxChapters - 2) :
          Prefetching(k) ~> (k \notin prefetched \/ Window(k) \subseteq DOMAIN _chapter_cache)
    /\ [][\A w \in Workers : store(w) =>
             /\ wk[w].idx \in Window(wk[w].cur)
             /\ DOMAIN _chapter_cache' \subseteq DOMAIN _chapter_cache \cup {wk[w].idx}]_vars

\* preload_chapters(1) of book A has filled its window, and chapter 3 is not cached.
C9_Witness ==
    /\ 1 \in prefetched
    /\ Quiescent
    /\ DOMAIN _chapter_cache = {0, 1, 2}
    /\ chapter_count = 4

\* The walk of the loaded book's navigation list.
Walk == process_items(_book.toc, 0, <<>>, _chapter_map, _chapters)

\* C10: for a book whose navigation list is empty or whose walk raises,
\* get_flat_toc returns chapter_count entries, the entry at position p
\* (counted from 0) with chapter_idx p and level 0.
C10_FallbackToc ==
    (ret = TocRet /\ (_book.toc = <<>> \/ Walk.raised)) =>
        /\ Len(flat_toc) = chapter_count
        /\ \A p \in DOMAIN flat_toc :
              flat_toc[p].chapter_idx = p - 1 /\ flat_toc[p].level = 0

\* C11: for a loaded book with at least one chapter, get_flat_toc returns a
\* list with an entry whose chapter_idx is a valid chapter index.
C11_NavigableToc ==
    (ret = TocRet /\ chapter_count >= 1) =>
        \E p \in DOMAIN flat_toc :
            0 <= flat_toc[p].chapter_idx /\ flat_toc[p].chapter_idx < chapter_count

\* get_chapter_content(i) has nothing to return: i is no chapter index, or
\* the chapter's bytes do not decode.
NotFoundCase(i) == ~(0 <= i /\ i < chapter_count) \/ ~_chapters[i + 1].ok

\* C12: get_chapter_content(i) for an i out of range or a chapter that does
\* not decode returns None and leaves the cache as it is; a task whose decode
\* fails stores nothing.
C12_NotFound ==
    [][/\ \A i \in IndexInputs :
             (get_chapter_content(i) /\ NotFoundCase(i)) =>
                 /\ m'.pc = "idle"
                 /\ ret' = Returned(i, NoContent)
                 /\ _chapter_cache' = _chapter_cache
       /\ \A w \in Workers :
             (read(w) /\ NotFoundCase(wk[w].idx)) =>
                 /\ wk'[w] = WIdle
                 /\ _chapter_cache' = _chapter_cache]_vars

\* C13: set_image_visibility(visible) sets the flag; it empties the cache when
\* visible differs from the flag and leaves every entry when it does not; it
\* computes nothing, submits nothing and touches no other field.
C13_VisibilityFrame ==
    [][\A v \in BOOLEAN :
          set_image_visibility(v) =>
              /\ _show_images' = v
              /\ (v # _show_images) => _chapter_cache' = <<>>
              /\ (v = _show_images) => _chapter_cache' = _chapter_cache
              /\ queue' = queue /\ wk' = wk /\ m' = m
              /\ <<_book, _chapters, _chapter_map, _image_index>>' =
                     <<_book, _chapters, _chapter_map, _image_index>>]_vars

\* A chapter was returned and cached with images shown, the flag was then
\* changed once, and the cache is empty.
C13_Witness ==
    /\ ~_show_images
    /\ _chapter_cache = <<>>
    /\ ret.op = "get" /\ ret.ok /\ ret.toggles = 1
    /\ Quiescent

\* The return of get_chapter_content(i) in this step is what ret holds after it.
Recorded(i) == ~(ret.op = "get" /\ (ret.toggles = 1 \/ (ret.toggles = 2 /\ ret.arg # i)))

\* C14: with images hidden, the content get_chapter_content returns for a
\* chapter has every matched image tag replaced by the placeholder that names
\* the percent-decoded basename of the tag's src, and holds no data URI.
C14_HiddenPlaceholders ==
    [][\A i \in 0..(chapter_count - 1) :
          (GetReturns(i) /\ Recorded(i) /\ ~_show_images /\ ret'.ok) =>
              LET srcs == _chapters[i + 1].srcs
                  tags == ret'.html.tags
              IN  /\ Len(tags) = Len(srcs)
                  /\ \A k \in DOMAIN tags :
                        tags[k] = Placeholder(basename(unquote(srcs[k])))]_vars

\* --------------------------------------------------- _replace_image on a tag

\* Longest attribute list of the image tags given to _replace_image.
MaxTagLen == 2

\* An attribute of an <img> tag: its name as tokens ("data-src" is
\* <<"data-", "src">>) and its quoted value.
Attr(n, v) == [name |-> n, value |-> v]

\* The text of attribute a matches src=["\'][^"\'>]+["\']: it ends a name with
\* "src" and has a value.  (The expression is not anchored at the start of the
\* name.)
IsSrc(a) == a.name # <<>> /\ a.name[Len(a.name)] = "src" /\ a.value # <<>>

\* Where the pattern of _embed_images finds its group 1 in a tag: [^>]+ is
\* greedy, so at the last attribute that matches; 0 when the tag is no match.
LastSrc(tag) ==
    IF \E k \in DOMAIN tag : IsSrc(tag[k])
    THEN CHOOSE k \in DOMAIN tag :
             IsSrc(tag[k]) /\ \A j \in DOMAIN tag : IsSrc(tag[j]) => j <= k
    ELSE 0

\* match.group(1)
Group1(tag) == tag[LastSrc(tag)].value

\* An image item with whether its get_content() succeeds.
ImageItem(a, n, ok) == [arch |-> a, name |-> n, ok |-> ok]

NoItem == ImageItem(0, <<>>, FALSE)

\* A lookup that does not percent-decode the reference.
ResolveImage_undecoded(src, index) ==
    LET last == SplitLast(src, "/")
    IN  IF src \in DOMAIN index THEN index[src]
        ELSE IF last \in DOMAIN index THEN index[last]
        ELSE NoItem

\* self._image_index.get(src_decoded) or self._image_index.get(src_decoded.split("/")[-1])
ResolveImage(src, index) ==
    LET src_decoded == unquote(src)
        last == SplitLast(src_decoded, "/")
    IN  IF src_decoded \in DOMAIN index THEN index[src_decoded]
        ELSE IF last \in DOMAIN index THEN index[last]
        ELSE NoItem

\* The value f"data:{mime_type};base64,{b64}" for an item; its name stands
\* for its bytes.
DataUriValue(item) == <<"data:", MimeType(item.name), ";base64,">> \o item.name

\* re.sub(r'src=["\'][^"\'>]+["\']', f'src="{uri}"', tag): every match in the
\* tag is replaced.
SubSrc(tag, uri) ==
    [k \in DOMAIN tag |-> IF IsSrc(tag[k]) THEN Attr(tag[k].name, uri) ELSE tag[k]]

\* What _replace_image returns: the placeholder div or a tag.
PlaceholderDiv(file) == [kind |-> "placeholder", file |-> file, attrs |-> <<>>]
ImgTag(attrs) == [kind |-> "tag", file |-> <<>>, attrs |-> attrs]

\* _replace_image for a matched tag, attribute by attribute.
ReplaceTag(tag, show, index) ==
    IF ~show THEN PlaceholderDiv(basename(unquote(Group1(tag))))
    ELSE LET item == ResolveImage(Group1(tag), index)
         IN  IF item # NoItem /\ item.ok
             THEN ImgTag(SubSrc(tag, DataUriValue(item)))
             ELSE ImgTag(tag)

\* The book whose images the tags refer to: a JPEG in a folder, a PNG with an
\* upper-case extension, a file of an extension the table does not know, an
\* image whose content cannot be read, and one with a space in its name.
ImgBook ==
    [id |-> 4,
     chapters |-> << Chapter(4, <<"t", "/", "a">>, TRUE, << >>) >>,
     images |-> << ImageItem(4, <<"i", "/", "c", ".", "jpg">>, TRUE),
                   ImageItem(4, <<"d", ".", "PNG">>, TRUE),
                   ImageItem(4, <<"i", "/", "e", ".", "bin">>, TRUE),
                   ImageItem(4, <<"i", "/", "f", ".", "gif">>, FALSE),
                   ImageItem(4, <<"i", "/", "g", " ", "h", ".", "png">>, TRUE) >>,
     toc |-> << >>]

\* The references of the tags: a full path, a path whose last segment is
\* indexed, percent-encoded paths, names of each image, and a name of none.
SrcValues ==
    { <<"i", "/", "c", ".", "jpg">>, <<"x", "/", "c", ".", "jpg">>,
      <<"i", "%", "2", "F", "c", ".", "jpg">>, <<"d", ".", "PNG">>,
      <<"e", ".", "bin">>, <<"f", ".", "gif">>, <<"q", ".", "png">>,
      <<"i", "/", "g", " ", "h", ".", "png">>,
      <<"i", "/", "g", "%", "2", "0", "h", ".", "png">> }

ImgAttrs ==
    {Attr(n, v) : n \in {<<"src">>, <<"data-", "src">>}, v \in SrcValues}
        \cup {Attr(<<"alt">>, <<"A">>)}

\* The tags the pattern matches.
ImgTags ==
    {t \in UNION {[1..k -> ImgAttrs] : k \in 1..MaxTagLen} : LastSrc(t) # 0}

\* _replace_image is called for the tag match.
replace_match ==
    /\ m.pc = "idle"
    /\ replaced = NoTag
    /\ replaced' = ReplaceTag(match, _show_images, _image_index)
    /\ UNCHANGED <<loader, queue, wk, m, ret, pre, prefetched, flat_toc, calls,
                   match, settings, window>>

\* The loader after a successful load_file of ImgBook, and a tag of a chapter.
ImgInit ==
    /\ _book = ImgBook
    /\ _chapters = _book.chapters
    /\ _chapter_map = MapChapters(_book.chapters, 0, <<>>)
    /\ _chapter_cache = <<>>
    /\ _image_index = _build_image_index(_book)
    /\ _show_images = TRUE
    /\ queue = <<>>
    /\ wk = [w \in Workers |-> WIdle]
    /\ m = MIdle
    /\ ret = LoadRet(TRUE)
    /\ pre = NoPre
    /\ prefetched = {}
    /\ flat_toc = <<>>
    /\ calls = [loads |-> 1, toggles |-> 0, preloads |-> 0, gets |-> 0]
    /\ match \in ImgTags
    /\ replaced = NoTag
    /\ SettingsIdle
    /\ wpc = "ready"
    /\ WindowDefaults

ImgNext == replace_match \/ \E v \in BOOLEAN : set_image_visibility(v)

ImgSpec == ImgInit /\ [][ImgNext]_vars

\* The attribute named src of a tag that has exactly one, 0 otherwise.
TheSrc(tag) ==
    LET S == {k \in DOMAIN tag : tag[k].name = <<"src">>}
    IN  IF Cardinality(S) = 1 THEN CHOOSE k \in S : TRUE ELSE 0

\* C15: with images shown, _replace_image returns the tag with the value of
\* its src attribute, and nothing else, replaced by the data URI of the image
\* the src resolves to, the MIME type taken from the image's extension; and
\* the tag as it is when the src resolves to nothing or the image cannot be read.
C15_VisibleDataUri ==
    [][(replace_match /\ _show_images /\ TheSrc(match) # 0) =>
          LET k == TheSrc(match)
              item == ResolveImage(match[k].value, _image_index)
          IN  replaced' =
                  IF item # NoItem /\ item.ok
                  THEN ImgTag([match EXCEPT ![k].value = DataUriValue(item)])
                  ELSE ImgTag(match)]_vars

RECURSIVE Depths(_, _)
\* For the titled links of a navigation list, in the order of the walk: how
\* many collections each is nested in, the list itself counted as depth.
Depths(items, depth) ==
    IF items = <<>> THEN <<>>
    ELSE LET item == Head(items)
             tail == Depths(Tail(items), depth)
         IN  CASE item.kind = "group" -> Depths(item.children, depth + 1) \o tail
               [] item.kind = "bad" -> tail
               [] OTHER -> IF item.title = <<>> THEN tail ELSE <<depth>> \o tail

\* C16: for a navigation list whose walk does not raise, every entry of
\* get_flat_toc has the level of its node's depth: 0 for a top-level link, and
\* above 0 for a link in a collection inside a collection (as the links of a
\* section are).
C16_LevelIsDepth ==
    (ret = TocRet /\ ~Walk.raised) =>
        LET d == Depths(_book.toc, 0)
        IN  /\ Len(flat_toc) = Len(d)
            /\ \A p \in DOMAIN flat_toc :
                  /\ d[p] = 0 => flat_toc[p].level = 0
                  /\ d[p] >= 2 => flat_toc[p].level >= 1

\* --------------------------------------------------------- SettingsManager

\* The typography keys of the settings file and the values stored under
\* them, in tenths: one inside and one above every range.
SettingKeys == {"font_scale", "line_spacing", "paragraph_spacing"}
SettingValues == {DefaultLineSpacing, 35}

\* The maps a settings file holds, and save is given.
SettingsMaps == UNION {[K -> SettingValues] : K \in SUBSET SettingKeys}

SettingsFiles ==
    {SFile(k, <<>>, w) : k \in {"missing", "unreadable", "invalid"}, w \in BOOLEAN}
        \cup {SFile("json", d, w) : d \in SettingsMaps, w \in BOOLEAN}

\* A try block's outcome: whether it raised, and the value it returned if not.
Outcome(raised, value) == [raised |-> raised, value |-> value]

\* try: ... except Exception: with the value returned after the handler.
Uncaught(body, fallback) == body

Caught(body, fallback) ==
    IF body.raised THEN Outcome(FALSE, fallback) ELSE body

\* The try block of load, lines 29-31: open raises on a file that cannot be
\* read, json.load on one that holds no valid JSON; a missing file is not
\* opened, and line 34 returns {}.
LoadBody(file) ==
    CASE file.kind = "json" -> Outcome(FALSE, file.data)
      [] file.kind = "missing" -> Outcome(FALSE, <<>>)
      [] OTHER -> Outcome(TRUE, <<>>)

\* SettingsManager.load, as a function of the file.
Load(file) == Caught(LoadBody(file), <<>>)

\* The try block of save, lines 20-22: open(..., "w") raises when the path
\* cannot be written; otherwise the file is truncated, and json.dump raises
\* when a value of data is not serializable.
SaveBody(file, serializable) ==
    Outcome(~file.writable \/ ~serializable, TRUE)

\* The file save leaves.
Saved(file, data, serializable) ==
    IF ~file.writable THEN file
    ELSE IF file.kind = "unreadable"
         THEN SFile("unreadable", IF serializable THEN data ELSE <<>>, TRUE)
    ELSE IF serializable THEN SFile("json", data, TRUE)
    ELSE SFile("invalid", <<>>, TRUE)

\* SettingsManager.load
load ==
    /\ m.pc = "idle"
    /\ LET r == Load(settings_file)
       IN  settings_ret' = [op |-> "load", raised |-> r.raised, ok |-> TRUE, data |-> r.value]
    /\ UNCHANGED <<loader, queue, wk, m, ret, pre, prefetched, flat_toc, calls,
                   image, settings_file, window>>

\* SettingsManager.save
save(data, serializable) ==
    /\ m.pc = "idle"
    /\ LET r == Caught(SaveBody(settings_file, serializable), FALSE)
       IN  settings_ret' = [op |-> "save", raised |-> r.raised, ok |-> r.value, data |-> data]
    /\ settings_file' = Saved(settings_file, data, serializable)
    /\ UNCHANGED <<loader, queue, wk, m, ret, pre, prefetched, flat_toc, calls,
                   image, window>>

\* SettingsManager.set: load's map with the key assigned is given to save.
set(key, value, serializable) ==
    /\ m.pc = "idle"
    /\ LET old == Load(settings_file).value
           data == [k \in DOMAIN old \cup {key} |-> IF k = key THEN value ELSE old[k]]
           r == Caught(SaveBody(settings_file, serializable), FALSE)
       IN  /\ settings_ret' = [op |-> "set", raised |-> r.raised, ok |-> r.value, data |-> data]
           /\ settings_file' = Saved(settings_file, data, serializable)
    /\ UNCHANGED <<loader, queue, wk, m, ret, pre, prefetched, flat_toc, calls,
                   image, window>>

\* Settings files that hold a map and that open(..., "r") cannot read, as a
\* file without the read permission.
StoredUnreadable == {SFile("unreadable", d, TRUE) : d \in SettingsMaps}

\* A SettingsManager on any settings file.
SettingsInit ==
    /\ LoaderInit
    /\ ImageIdle
    /\ settings_file \in SettingsFiles \cup StoredUnreadable
    /\ settings_ret = NoSettingsRet
    /\ wpc = "ready"
    /\ WindowDefaults

SettingsNext ==
    \/ load
    \/ \E d \in SettingsMaps, s \in BOOLEAN : save(d, s)
    \/ \E k \in SettingKeys, v \in SettingValues, s \in BOOLEAN : set(k, v, s)

SettingsSpec == SettingsInit /\ [][SettingsNext]_vars

\* C17: load and save do not raise; load returns an empty map when the file
\* is missing, cannot be read or holds no valid JSON; save returns False when
\* the file cannot be written.
C17_SettingsNeverRaise ==
    [][/\ load =>
              /\ ~settings_ret'.raised
              /\ settings_file.kind # "json" => settings_ret'.data = <<>>
       /\ \A d \in SettingsMaps, s \in BOOLEAN :
              save(d, s) =>
                  /\ ~settings_ret'.raised
                  /\ (~settings_file.writable \/ ~s) => ~settings_ret'.ok]_vars

\* save returned False on a file that cannot be written, which holds no valid JSON.
C17_Witness ==
    /\ settings_ret.op = "save" /\ ~settings_ret.ok /\ ~settings_ret.raised
    /\ ~settings_file.writable
    /\ settings_file.kind = "invalid"

\* C29: a set(key, value) that returned True changed only that key: load()
\* then yields value for key and, for every other key the file stored before
\* the call, the value it stored, also when the file could not be read at
\* the time of the call.
C29_SetChangesOnlyKey ==
    [][\A k \in SettingKeys, v \in SettingValues, s \in BOOLEAN :
          (set(k, v, s) /\ settings_ret'.ok) =>
              LET after == Load(settings_file').value
              IN  /\ k \in DOMAIN after /\ after[k] = v
                  /\ \A j \in DOMAIN settings_file.data \ {k} :
                        j \in DOMAIN after /\ after[j] = settings_file.data[j]]_vars

\* The same for the map the file holds after the call, whether or not load
\* can read it.
C29_StoredKeysKept ==
    [][\A k \in SettingKeys, v \in SettingValues, s \in BOOLEAN :
          (set(k, v, s) /\ settings_ret'.ok) =>
              \A j \in DOMAIN settings_file.data \ {k} :
                  /\ j \in DOMAIN settings_file'.data
                  /\ settings_file'.data[j] = settings_file.data[j]]_vars

\* set on a file that load can read, or that does not exist, keeps the claim.
C29_ReadableKept ==
    [][\A k \in SettingKeys, v \in SettingValues, s \in BOOLEAN :
          (set(k, v, s) /\ settings_ret'.ok /\ settings_file.kind \in {"json", "missing"}) =>
              LET after == Load(settings_file').value
              IN  /\ k \in DOMAIN after /\ after[k] = v
                  /\ \A j \in DOMAIN settings_file.data \ {k} :
                        j \in DOMAIN after /\ after[j] = settings_file.data[j]]_vars

\* -------------------------------------------------- MainWindow: typography

\* The limits and steps of the zoom and spacing handlers, lines 845-873, in tenths.
MinFontScale == 5
MaxFontScale == 20
FontStep == 1
MinLineSpacing == 12
MaxLineSpacing == 30
LineStep == 1
MinParagraphSpacing == 4
MaxParagraphSpacing == 30
ParagraphStep == 2

\* min(a, b), max(a, b)
Min(a, b) == IF a <= b THEN a ELSE b
Max(a, b) == IF a >= b THEN a ELSE b

\* data.get(key, default)
Get(data, key, default) == IF key \in DOMAIN data THEN data[key] ELSE default

\* _save_settings, at the end of a handler: the dict of lines 1002-1014 (the
\* keys that the modelled fields are restored from) is given to
\* SettingsManager.save; its values are numbers, strings and booleans, which
\* json.dump serializes.
_save_settings ==
    LET data == [font_scale |-> _font_scale', line_spacing |-> _line_spacing',
                 paragraph_spacing |-> _paragraph_spacing',
                 current_chapter |-> _current_chapter',
                 show_images |-> win_show_images', reading_mode |-> _reading_mode']
        r == Caught(SaveBody(settings_file, TRUE), FALSE)
    IN  /\ settings_file' = Saved(settings_file, data, TRUE)
        /\ settings_ret' = [op |-> "save", raised |-> r.raised, ok |-> r.value, data |-> data]

\* A handler that does not give the window's flag to the loader.
LoaderFlag_kept(flag, visible) == flag

\* self._loader.set_image_visibility(self._show_images): the loader's flag
\* after the call.
LoaderFlag(flag, visible) == visible

\* _load_settings, called once, by MainWindow.__init__ (line 126): nothing is
\* assigned when load() gives an empty dict; else every field gets the file's
\* value or its default, and the loader is given the window's image flag.
_load_settings ==
    /\ wpc = "init"
    /\ wpc' = "ready"
    /\ LET r == Load(settings_file)
           data == r.value
       IN  /\ settings_ret' = [op |-> "load", raised |-> r.raised, ok |-> TRUE, data |-> data]
           /\ IF data = <<>>
              THEN UNCHANGED <<_font_scale, _line_spacing, _paragraph_spacing,
                               _current_chapter, _reading_mode, win_show_images,
                               _show_images, _chapter_cache>>
              ELSE /\ _current_chapter' = Get(data, "current_chapter", 0)
                   /\ _font_scale' = Get(data, "font_scale", DefaultFontScale)
                   /\ _line_spacing' = Get(data, "line_spacing", DefaultLineSpacing)
                   /\ _paragraph_spacing' = Get(data, "paragraph_spacing", DefaultParagraphSpacing)
                   /\ win_show_images' = Get(data, "show_images", TRUE)
                   /\ _reading_mode' = Get(data, "reading_mode", FALSE)
                   /\ _show_images' = LoaderFlag(_show_images, win_show_images')
                   /\ _chapter_cache' =
                          ClearedIfChanged(_chapter_cache, _show_images # win_show_images')
    /\ UNCHANGED <<_book, _chapters, _chapter_map, _image_index, queue, wk, m, ret, pre,
                   prefetched, flat_toc, calls, image, settings_file, shown, pending, ev>>

\* What a typography handler leaves alone.  (No archive is open in the runs
\* of these handlers: the get_chapter_content of _display_chapter returns None
\* at line 93, and nothing is prefetched.)
TypographyFrame ==
    UNCHANGED <<loader, queue, wk, m, ret, pre, prefetched, flat_toc, calls, image, wpc,
                reader>>

_zoom_in ==
    /\ wpc = "ready"
    /\ _font_scale' = Min(MaxFontScale, _font_scale + FontStep)
    /\ UNCHANGED <<_line_spacing, _paragraph_spacing>>
    /\ TypographyFrame
    /\ _save_settings

_zoom_out ==
    /\ wpc = "ready"
    /\ _font_scale' = Max(MinFontScale, _font_scale - FontStep)
    /\ UNCHANGED <<_line_spacing, _paragraph_spacing>>
    /\ TypographyFrame
    /\ _save_settings

_increase_line_spacing ==
    /\ wpc = "ready"
    /\ _line_spacing' = Min(MaxLineSpacing, _line_spacing + LineStep)
    /\ UNCHANGED <<_font_scale, _paragraph_spacing>>
    /\ TypographyFrame
    /\ _save_settings

_decrease_line_spacing ==
    /\ wpc = "ready"
    /\ _line_spacing' = Max(MinLineSpacing, _line_spacing - LineStep)
    /\ UNCHANGED <<_font_scale, _paragraph_spacing>>
    /\ TypographyFrame
    /\ _save_settings

_increase_paragraph_spacing ==
    /\ wpc = "ready"
    /\ _paragraph_spacing' = Min(MaxParagraphSpacing, _paragraph_spacing + ParagraphStep)
    /\ UNCHANGED <<_font_scale, _line_spacing>>
    /\ TypographyFrame
    /\ _save_settings

_decrease_paragraph_spacing ==
    /\ wpc = "ready"
    /\ _paragraph_spacing' = Max(MinParagraphSpacing, _paragraph_spacing - ParagraphStep)
    /\ UNCHANGED <<_font_scale, _line_spacing>>
    /\ TypographyFrame
    /\ _save_settings

\* MainWindow.__init__ up to line 125, on any settings file.
WinInit ==
    /\ LoaderInit
    /\ ImageIdle
    /\ settings_file \in SettingsFiles
    /\ settings_ret = NoSettingsRet
    /\ wpc = "init"
    /\ WindowDefaults

WinNext ==
    \/ _load_settings
    \/ _zoom_in
    \/ _zoom_out
    \/ _increase_line_spacing
    \/ _decrease_line_spacing
    \/ _increase_paragraph_spacing
    \/ _decrease_paragraph_spacing

WinSpec == WinInit /\ [][WinNext]_vars

InRanges(fs, ls, ps) ==
    /\ MinFontScale <= fs /\ fs <= MaxFontScale
    /\ MinLineSpacing <= ls /\ ls <= MaxLineSpacing
    /\ MinParagraphSpacing <= ps /\ ps <= MaxParagraphSpacing

\* C18: once the settings are loaded, font_scale is within [0.5, 2.0],
\* line_spacing within [1.2, 3.0] and paragraph_spacing within [0.4, 3.0], and
\* so are the values _save_settings has written.
C18_TypographyInRange ==
    wpc = "ready" =>
        /\ InRanges(_font_scale, _line_spacing, _paragraph_spacing)
        /\ (settings_ret.op = "save" /\ settings_ret.ok) =>
               InRanges(settings_file.data.font_scale, settings_file.data.line_spacing,
                        settings_file.data.paragraph_spacing)

\* ------------------------------------------------------ href resolution

\* The chapters of the loaded book whose basename is name.
Sharing(name) ==
    {i \in 0..(chapter_count - 1) : basename(_chapters[i + 1].name) = name}

\* C19: an entry of the navigation walk whose href has a basename that two or
\* more chapters share gets the index of the first of those chapters.
C19_FirstOfSharedBasename ==
    (ret = TocRet /\ _book.id # 0) =>
        \A p \in 1..Len(Walk.out) :
            LET s == Sharing(basename(flat_toc[p].href))
            IN  Cardinality(s) >= 2 =>
                    /\ flat_toc[p].chapter_idx \in s
                    /\ \A j \in s : flat_toc[p].chapter_idx <= j

\* The resolution by the query-stripped, percent-decoded basename: the
\* map's index for that name, else the lowest chapter whose path contains it.
ResolvedByStrippedName(href, map, chs) ==
    LET name == unquote(SplitFirst(basename(href), "?"))
        hits == {i \in 0..(Len(chs) - 1) : Contains(name, chs[i + 1].name)}
    IN  IF name \in DOMAIN map THEN map[name]
        ELSE IF hits # {} THEN CHOOSE i \in hits : \A j \in hits : i <= j
        ELSE NoIndex

\* C20: every entry of the navigation walk with an href has the chapter_idx
\* that the exact match and then the substring match of the query-stripped,
\* percent-decoded basename give.
C20_StrippedNameResolution ==
    (ret = TocRet /\ _book.id # 0) =>
        \A p \in 1..Len(Walk.out) :
            flat_toc[p].href # <<>> =>
                flat_toc[p].chapter_idx =
                    ResolvedByStrippedName(flat_toc[p].href, _chapter_map, _chapters)

\* --------------------------------------------------------- image resolution

\* The index's resource for a referenced path: the one under the decoded
\* path, else the one under the text after its last "/", else none.
Resolved(path, index) ==
    LET decoded == unquote(path)
        segment == SubSeq(decoded, LastIndexOf(decoded, "/", Len(decoded)) + 1,
                          Len(decoded))
    IN  IF decoded \in DOMAIN index THEN index[decoded]
        ELSE IF segment \in DOMAIN index THEN index[segment]
        ELSE NoItem

RECURSIVE PercentEncoded(_, _)
\* The percent-encoded form of path s in which the characters of chars are
\* written as escapes.
PercentEncoded(s, chars) ==
    IF s = <<>> THEN <<>>
    ELSE LET esc == {e \in DOMAIN Escapes : Escapes[e] = s[1] /\ e[2] \in {"0", "F"}}
         IN  (IF s[1] \in chars /\ esc # {}
              THEN <<"%">> \o (CHOOSE e \in esc : TRUE)
              ELSE <<s[1]>>) \o PercentEncoded(Tail(s), chars)

\* The src-like attributes of a tag.
SrcLike(tag) == {k \in DOMAIN tag : IsSrc(tag[k])}

PoolPreloads == 3

\* The loader after a successful load_file, with PoolPreloads calls of
\* preload_chapters still to be made.
PoolInit ==
    /\ _book \in {BookA, BookB}
    /\ _chapters = _book.chapters
    /\ _chapter_map = MapChapters(_book.chapters, 0, <<>>)
    /\ _chapter_cache = <<>>
    /\ _image_index = _build_image_index(_book)
    /\ _show_images = TRUE
    /\ queue = <<>>
    /\ wk = [w \in Workers |-> WIdle]
    /\ m = MIdle
    /\ ret = LoadRet(TRUE)
    /\ pre = NoPre
    /\ prefetched = {}
    /\ flat_toc = <<>>
    /\ calls = [loads |-> 1, toggles |-> 0, preloads |-> MaxPreloads - PoolPreloads,
                gets |-> 0]
    /\ RestInit

\* preload_chapters and the worker threads of the executor.
PoolNext ==
    \/ \E c \in IndexInputs : preload_chapters(c)
    \/ preload_step
    \/ \E w \in Workers : take(w)
    \/ \E w \in Workers : check(w)
    \/ \E w \in Workers : read(w)
    \/ \E w \in Workers : embed(w)
    \/ \E w \in Workers : store(w)

PoolSpec == PoolInit /\ [][PoolNext]_vars

\* The workers that are executing a task.
Executing == {w \in Workers : wk[w].pc # "idle"}

\* C22: at most two tasks are executing at any moment, and a task leaves the
\* queue only to a worker that was free, so the tasks submitted while both
\* workers are busy wait.
C22_TwoWorkers ==
    /\ [](Cardinality(Executing) <= 2)
    /\ [][queue' # queue =>
            \/ /\ Len(queue') = Len(queue) + 1
               /\ UNCHANGED wk
            \/ /\ queue' = Tail(queue)
               /\ Cardinality(Executing) < 2
               /\ \E w \in Workers \ Executing : Executing' = Executing \cup {w}]_vars

\* Both workers are executing tasks and a third task, of a later
\* preload_chapters call, waits in the queue.
C22_Witness ==
    /\ Cardinality(Executing) = 2
    /\ queue # <<>>
    /\ calls.preloads >= MaxPreloads - PoolPreloads + 2
    /\ \A w \in Executing : wk[w].cur # queue[1].cur

\* C27: when no load_file is running, every key of the chapter cache is an
\* index of the loaded archive's chapter list.
C27_CacheKeysValid ==
    m.pc \notin {"load_clear", "load_index", "load_fill"} =>
        \A k \in DOMAIN _chapter_cache : 0 <= k /\ k < chapter_count

\* ------------------------------------------------------ MainWindow: reading

\* Most runJavaScript callbacks of _display_chapter waiting at a time, and
\* most _toggle_images calls of a run.
MaxPending == 1
ReaderToggles == 1

\* Book C: three chapters, the second with an image tag, and a navigation
\* list with a link to the first chapter and a link that names no chapter.
BookC ==
    [id |-> 5,
     chapters |-> << Chapter(5, <<"t", "/", "a">>, TRUE, << >>),
                     Chapter(5, <<"t", "/", "b">>, TRUE, << CoverJpg >>),
                     Chapter(5, <<"t", "/", "c">>, TRUE, << >>) >>,
     images |-> << Image(5, CoverJpg) >>,
     toc |-> << Leaf(<<"A">>, <<"t", "/", "a">>), Leaf(<<"X">>, <<"x">>) >>]

\* What _open_file is given: book C, the shorter book B, and book B where
\* reading it raises (see Files).
ReaderBooks ==
    {[book |-> BookC, fail |-> "none"], [book |-> BookB, fail |-> "none"],
     [book |-> BookB, fail |-> "title"], [book |-> BookB, fail |-> "read"]}

\* The settings files the reading window starts on: none, one written with
\* images hidden, reading mode on and a chapter beyond every book of the
\* model, and one with a negative chapter.
ReaderFiles ==
    {NoFile,
     SFile("json", [current_chapter |-> 5, show_images |-> FALSE, reading_mode |-> TRUE], TRUE),
     SFile("json", [current_chapter |-> 0 - 1, reading_mode |-> TRUE], TRUE)}

\* get_chapter_content(i) as one call: what it returns and the cache it leaves.
ChapterContent(chs, cache, show, index, i) ==
    IF ~(0 <= i /\ i < Len(chs)) THEN [html |-> NoContent, cache |-> cache]
    ELSE IF i \in DOMAIN cache THEN [html |-> cache[i], cache |-> cache]
    ELSE IF ~chs[i + 1].ok THEN [html |-> NoContent, cache |-> cache]
    ELSE LET html == Content(chs[i + 1], _embed_images(chs[i + 1].srcs, show, index))
         IN  [html |-> html, cache |-> Put(cache, i, html)]

\* preload_chapters(current) as one call: the queue it leaves.
Submitted(chs, cache, q, current) ==
    LET r == PreloadRange(current, Len(chs))
        tasks == [k \in 1..(r.hi - r.lo) |-> Task(r.lo + k - 1, current)]
    IN  q \o SelectSeq(tasks, LAMBDA t : t.idx \notin DOMAIN cache)

\* A callback given to page.runJavaScript: _set_html_and_restore with the
\* content that _display_chapter had got.
Callback(content) == [content |-> content]

\* A _display_chapter that renders and prefetches also when it got no
\* content, as the branch for a browser without a page does (lines 705-722).
Display_without_page(chs, cache, show, index, q, current, preserve, html, cbs) ==
    LET g == ChapterContent(chs, cache, show, index, current)
    IN  [cache |-> g.cache, queue |-> Submitted(chs, g.cache, q, current),
         shown |-> g.html, pending |-> cbs,
         renders |-> 1, preloads |-> <<current>>, notfound |-> g.html = NoContent]

\* _display_chapter(preserve_position) of a browser with a page, as a
\* QWebEngineView has once it is asked for it: the content of the
\* current chapter is fetched; None ends the call; with preserve_position the
\* rendering is left to the callback of runJavaScript, without it
\* _set_html_and_restore runs at once: setHtml, then preload_chapters.
Display(chs, cache, show, index, q, current, preserve, html, cbs) ==
    LET g == ChapterContent(chs, cache, show, index, current)
    IN  IF g.html = NoContent
        THEN [cache |-> g.cache, queue |-> q, shown |-> html, pending |-> cbs,
              renders |-> 0, preloads |-> <<>>, notfound |-> TRUE]
        ELSE IF preserve
        THEN [cache |-> g.cache, queue |-> q, shown |-> html,
              pending |-> Append(cbs, Callback(g.html)),
              renders |-> 0, preloads |-> <<>>, notfound |-> FALSE]
        ELSE [cache |-> g.cache, queue |-> Submitted(chs, g.cache, q, current),
              shown |-> g.html, pending |-> cbs,
              renders |-> 1, preloads |-> <<current>>, notfound |-> FALSE]

\* What the handlers of the reading window leave alone: the interactive
\* thread makes each loader call as a whole, the threads of the pool run
\* between the handlers, and the typography is not changed.  (Of the loader's
\* results only that of load_file is kept in ret.)
ReaderFrame ==
    UNCHANGED <<wk, m, pre, prefetched, image, wpc, _font_scale, _line_spacing,
                _paragraph_spacing>>

\* A display d of a handler takes effect.
Displayed(d, loaded, tocs, click) ==
    /\ Len(d.queue) <= MaxQueue
    /\ Len(d.pending) <= MaxPending
    /\ _chapter_cache' = d.cache
    /\ queue' = d.queue
    /\ shown' = d.shown
    /\ pending' = d.pending
    /\ ev' = [Event(loaded, tocs, d.renders, d.preloads, d.notfound)
                 EXCEPT !.click = click]

\* _open_file: load_file; on success _update_toc, the current chapter is
\* brought below the chapter count, _display_chapter() and _save_settings.
_open_file(f) ==
    /\ wpc = "ready"
    /\ calls.loads < MaxLoads
    /\ calls' = [calls EXCEPT !.loads = @ + 1]
    /\ ReaderFrame
    /\ ret' = LoadRet(f.fail = "none")
    /\ UNCHANGED <<_show_images, _reading_mode, win_show_images>>
    /\ IF f.fail = "read"
       THEN /\ ev' = Event("failed", 0, 0, <<>>, FALSE)
            /\ UNCHANGED <<_book, _chapters, _chapter_map, _chapter_cache, _image_index,
                           queue, flat_toc, _current_chapter, shown, pending, settings>>
       ELSE /\ _book' = f.book
            /\ _chapters' = f.book.chapters
            /\ _chapter_map' = MapChapters(f.book.chapters, 0, <<>>)
            /\ _image_index' = _build_image_index(f.book)
            /\ IF f.fail = "title"
               THEN /\ _chapter_cache' = <<>>
                    /\ ev' = Event("failed", 0, 0, <<>>, FALSE)
                    /\ UNCHANGED <<queue, flat_toc, _current_chapter, shown, pending,
                                   settings>>
               ELSE /\ flat_toc' = FlatToc(_book', _chapter_map', _chapters')
                    /\ IF Len(_chapters') > 0
                       THEN /\ _current_chapter' =
                                   Min(_current_chapter, Len(_chapters') - 1)
                            /\ Displayed(Display(_chapters', <<>>, _show_images,
                                                 _image_index', queue, _current_chapter',
                                                 TRUE, shown, pending), "ok", 1, "")
                       ELSE /\ _chapter_cache' = <<>>
                            /\ ev' = Event("ok", 1, 0, <<>>, FALSE)
                            /\ UNCHANGED <<queue, _current_chapter, shown, pending>>
                    /\ _save_settings

\* The navigation handlers: when go holds, index becomes the current chapter
\* and _display_chapter(preserve_position=False) is called; else nothing is
\* done.  (click is the button of the mouse click that the call comes from.)
Navigate(go, index, click) ==
    /\ wpc = "ready"
    /\ ReaderFrame
    /\ UNCHANGED <<_book, _chapters, _chapter_map, _image_index, _show_images, flat_toc,
                   calls, ret, settings, _reading_mode, win_show_images>>
    /\ IF go
       THEN /\ _current_chapter' = index
            /\ Displayed(Display(_chapters, _chapter_cache, _show_images, _image_index,
                                 queue, index, FALSE, shown, pending), "none", 0, click)
       ELSE /\ ev' = [NoEvent EXCEPT !.click = click]
            /\ UNCHANGED <<_chapter_cache, queue, _current_chapter, shown, pending>>

\* _goto_chapter(index): Home gives 0 and End chapter_count() - 1.
_goto_chapter(index) == Navigate(0 <= index /\ index < chapter_count, index, "")

\* prev_chapter and next_chapter, called for a key ("") or for a mouse click.
PrevChapter(click) == Navigate(_current_chapter > 0, _current_chapter - 1, click)

NextChapter(click) ==
    Navigate(_current_chapter < chapter_count - 1, _current_chapter + 1, click)

prev_chapter == PrevChapter("")

next_chapter == NextChapter("")

\* _on_toc_click on the p-th item of the tree: the index is the item's
\* chapter index, or without one its position among the top-level items.
_on_toc_click(p) ==
    LET idx == IF flat_toc[p].chapter_idx # NoIndex THEN flat_toc[p].chapter_idx
               ELSE p - 1
    IN  Navigate(0 <= idx /\ idx < chapter_count /\ idx # _current_chapter, idx, "")

\* A bridge that does not look at the reading mode.
ClickTarget_any_mode(reading, button) ==
    IF button = "left" THEN "next" ELSE IF button = "right" THEN "prev" ELSE "none"

\* What WebBridge.onMouseClick calls for a button.
ClickTarget(reading, button) ==
    IF reading /\ button = "left" THEN "next"
    ELSE IF reading /\ button = "right" THEN "prev"
    ELSE "none"

\* WebBridge.onMouseClick
onMouseClick(button) ==
    LET target == ClickTarget(_reading_mode, button)
    IN  CASE target = "next" -> NextChapter(button)
          [] target = "prev" -> PrevChapter(button)
          [] OTHER -> Navigate(FALSE, 0, button)

\* _toggle_images: the window's flag is flipped and given to the loader, then
\* _display_chapter() and _save_settings.
_toggle_images ==
    /\ wpc = "ready"
    /\ calls.toggles < ReaderToggles
    /\ calls' = [calls EXCEPT !.toggles = @ + 1]
    /\ ReaderFrame
    /\ UNCHANGED <<_book, _chapters, _chapter_map, _image_index, flat_toc, ret,
                   _current_chapter, _reading_mode>>
    /\ win_show_images' = ~win_show_images
    /\ _show_images' = LoaderFlag(_show_images, win_show_images')
    /\ Displayed(Display(_chapters,
                         ClearedIfChanged(_chapter_cache, _show_images # _show_images'),
                         _show_images', _image_index, queue, _current_chapter, TRUE,
                         shown, pending), "none", 0, "")
    /\ _save_settings

\* _toggle_reading_mode
_toggle_reading_mode ==
    /\ wpc = "ready"
    /\ ReaderFrame
    /\ UNCHANGED <<loader, queue, flat_toc, calls, ret, _current_chapter,
                   win_show_images, shown, pending>>
    /\ _reading_mode' = ~_reading_mode
    /\ ev' = NoEvent
    /\ _save_settings

\* The callback of runJavaScript runs: _set_html_and_restore gives the
\* content it holds to setHtml and calls preload_chapters(self._current_chapter).
_set_html_and_restore ==
    /\ wpc = "ready"
    /\ pending # <<>>
    /\ ReaderFrame
    /\ UNCHANGED <<loader, flat_toc, calls, ret, settings, _current_chapter,
                   _reading_mode, win_show_images>>
    /\ shown' = Head(pending).content
    /\ pending' = Tail(pending)
    /\ queue' = Submitted(_chapters, _chapter_cache, queue, _current_chapter)
    /\ Len(queue') <= MaxQueue
    /\ ev' = Event("none", 0, 1, <<_current_chapter>>, FALSE)

\* A thread of the pool runs the oldest task of the queue, a
\* get_chapter_content call, from its start to its end.  (How the steps of a
\* task fall between those of other threads is followed in Spec.)
run_task ==
    /\ queue # <<>>
    /\ queue' = Tail(queue)
    /\ _chapter_cache' = ChapterContent(_chapters, _chapter_cache, _show_images,
                                        _image_index, Head(queue).idx).cache
    /\ UNCHANGED <<_book, _chapters, _chapter_map, _image_index, _show_images, wk, m, ret,
                   pre, prefetched, flat_toc, calls, rest>>

\* MainWindow.__init__ up to line 125, on a settings file.
ReaderInit ==
    /\ LoaderInit
    /\ ImageIdle
    /\ settings_file \in ReaderFiles
    /\ settings_ret = NoSettingsRet
    /\ wpc = "init"
    /\ WindowDefaults

ReaderNext ==
    \/ _load_settings
    \/ \E f \in ReaderBooks : _open_file(f)
    \/ \E i \in {0, chapter_count - 1} : _goto_chapter(i)
    \/ prev_chapter
    \/ next_chapter
    \/ \E p \in DOMAIN flat_toc : _on_toc_click(p)
    \/ \E b \in {"left", "right", "middle"} : onMouseClick(b)
    \/ _toggle_images
    \/ _toggle_reading_mode
    \/ _set_html_and_restore
    \/ run_task

ReaderSpec == ReaderInit /\ [][ReaderNext]_vars

\* --------------------------------------------------- the reading window's claims

\* The content of chapter i of the loaded archive, or NoContent.
ContentNow(i) ==
    ChapterContent(_chapters, _chapter_cache, _show_images, _image_index, i).html

\* shown is a content of chapter i of the loaded archive.
ShowsChapter(i) ==
    /\ 0 <= i /\ i < chapter_count
    /\ shown.arch = _chapters[i + 1].arch
    /\ shown.name = _chapters[i + 1].name

C24_ClickNavigates ==
    [][\A b \in {"left", "right", "middle"} :
         (ev'.click = b /\ onMouseClick(b)) =>
            LET to == IF _reading_mode /\ b = "left" /\ _current_chapter < chapter_count - 1
                      THEN _current_chapter + 1
                      ELSE IF _reading_mode /\ b = "right" /\ _current_chapter > 0
                      THEN _current_chapter - 1
                      ELSE _current_chapter
            IN  /\ _current_chapter' = to
                /\ shown' = IF to # _current_chapter /\ ContentNow(to) # NoContent
                            THEN ContentNow(to) ELSE shown
                /\ (_reading_mode /\ b = "left") =>
                      <<_chapter_cache', queue', pending'>> =
                          LET d == Display(_chapters, _chapter_cache, _show_images,
                                           _image_index, queue, to, FALSE, shown, pending)
                          IN  IF to # _current_chapter
                              THEN <<d.cache, d.queue, d.pending>>
                              ELSE <<_chapter_cache, queue, pending>>]_vars

\* A left click in reading mode has brought up chapter 1.
C24_Witness ==
    /\ ev.click = "left"
    /\ _reading_mode
    /\ _current_chapter = 1
    /\ ShowsChapter(1)
    /\ ev.renders = 1

\* C25: after the load of an archive of at least one chapter, the current
\* chapter is an index of it.
C25_CurrentInRange ==
    (wpc = "ready" /\ ret = LoadRet(TRUE) /\ chapter_count >= 1) =>
        0 <= _current_chapter /\ _current_chapter < chapter_count

\* C26: where the browser shows the current chapter, a callback of
\* runJavaScript that runs leaves the browser showing the current chapter.
C26_ShownIsCurrent ==
    [][(_set_html_and_restore /\ ShowsChapter(_current_chapter)) =>
          ShowsChapter(_current_chapter)']_vars

\* C28: once the window is constructed, its image flag is the loader's.
C28_FlagsAgree ==
    wpc = "ready" => win_show_images = _show_images

\* The settings were loaded with images hidden, an archive was opened, and
\* the images were toggled on again.
C28_Witness ==
    /\ wpc = "ready"
    /\ settings_ret.op = "save"
    /\ calls.toggles = 1
    /\ calls.loads >= 1
    /\ _book = BookB
    /\ win_show_images
    /\ _reading_mode

====
